---- MODULE Spec2Model ----
(***************************************************************************)
(* A model of piecash's account hierarchy (piecash/core/account.py) and of *)
(* the numerator/denominator decimal property and the CallableList of      *)
(* piecash/_common.py.                                                     *)
(*                                                                         *)
(* Python's None is modelled by a sentinel of the type of the field:       *)
(* None for strings, NoAccount for account references, NoneInt for         *)
(* integers.  Accounts are identified by the order of their construction.  *)
(***************************************************************************)
EXTENDS Integers, Sequences, FiniteSets, TLC

\* ------------------------------------------------------------------ bounds
MaxAccounts == 3

\* ------------------------------------------------------- Python's None
None == "None"
NoAccount == 0
NoneInt == -1

\* ----------------------------------------------- account.py, lines 11-28
root_types == {"ROOT"}
asset_types == {"RECEIVABLE", "MUTUAL", "CASH", "ASSET", "BANK", "STOCK"}
liability_types == {"CREDIT", "LIABILITY", "PAYABLE"}
income_types == {"INCOME"}
expense_types == {"EXPENSE"}
trading_types == {"TRADING"}
equity_types == {"EQUITY"}
ACCOUNT_TYPES ==
    equity_types \cup income_types \cup expense_types \cup asset_types
        \cup liability_types \cup root_types \cup trading_types
incexp_types == income_types \cup expense_types
assetliab_types == asset_types \cup liability_types

\* The tuple the loop of _is_parent_child_types_consistent runs over.
FamilyTuple == <<assetliab_types, equity_types, incexp_types, trading_types>>

\* The for loop of lines 52-56, from index i on: True at the first family
\* holding both types, False when the tuple is exhausted.
RECURSIVE FamilyLoop(_, _, _)
FamilyLoop(type_parent, type_child, i) ==
    IF i > Len(FamilyTuple) THEN FALSE
    ELSE IF type_child \in FamilyTuple[i] /\ type_parent \in FamilyTuple[i] THEN TRUE
    ELSE FamilyLoop(type_parent, type_child, i + 1)

\* A slip of the first test: the root rule forgets to exclude a ROOT child.
ConsistentRootAcceptsRoot(type_parent, type_child) ==
    IF type_parent \in root_types THEN type_child \in ACCOUNT_TYPES
    ELSE IF type_child \in root_types THEN type_parent = None
    ELSE FamilyLoop(type_parent, type_child, 1)

_is_parent_child_types_consistent(type_parent, type_child) ==
    IF type_parent \in root_types THEN type_child \in (ACCOUNT_TYPES \ root_types)
    ELSE IF type_child \in root_types THEN type_parent = None
    ELSE FamilyLoop(type_parent, type_child, 1)

\* ------------------------------------------------------------ input sets
Accounts == 1..MaxAccounts
Names == {"A", "B"}
TreeTypes == {"ROOT", "ASSET", "BANK", "INCOME"}
BadType == "BOGUS"
Commodities == {"EUR", "JPY", "TND"}
\* Commodity.fraction of the three commodities used as inputs.
Fraction(c) == CASE c = "EUR" -> 100 [] c = "JPY" -> 1 [] OTHER -> 1000
ExplicitScu == 7

VARIABLES
    nacc,        \* number of accounts constructed so far (accounts 1..nacc)
    name,        \* Account.name
    type,        \* Account.type
    parent,      \* Account.parent
    children,    \* Account.children, the backref collection of parent
    commodity,   \* Account.commodity
    scu,         \* Account._commodity_scu
    nonstd,      \* Account._non_std_scu
    explicit,    \* history: commodity_scu was given a concrete value by the caller
    last,        \* outcome of the last operation: "ok" or the error raised
    cpar,        \* _is_parent_child_types_consistent: argument type_parent
    cchild,      \* argument type_child
    cdone,       \* the function has returned
    cres,        \* its return value
    din,         \* gncnumeric property: the value d handed to fset
    basis,       \* the record's _<denom>_basis attribute, NoneInt when absent
    pair,        \* the stored columns <<num, denom>>, <<>> when both are None
    setres,      \* "pending", or how fset ended: "ok", "TypeError", "ValueError"
    getdone,     \* fget has been called
    got,         \* what fget returned: <<>> for None, else <<decimal>>
    flist,       \* CallableList: the elements of the list
    flist0,      \* history: the elements when the list was built
    crit,        \* the kwargs of the call, <<field, value>> in iteration order
    hasFallback, \* CallableList.fallback is set
    fbcalls,     \* number of times the fallback was invoked
    fdone,       \* __call__ has ended
    fres,        \* how it ended
    qacc,        \* fullname: the account the property is read on
    qdone,       \* the getter has ended
    qres         \* how it ended

accountVars == <<nacc, name, type, parent, children, commodity, scu, nonstd, explicit, last>>
compatVars == <<cpar, cchild, cdone, cres>>
numericVars == <<din, basis, pair, setres, getdone, got>>
findVars == <<flist, flist0, crit, hasFallback, fbcalls, fdone, fres>>
nameVars == <<qacc, qdone, qres>>
pureVars == <<compatVars, numericVars, findVars, nameVars>>
vars == <<accountVars, pureVars>>
fields == <<nacc, name, type, parent, children, commodity, scu, nonstd, explicit>>

Errors == {"dup_name", "bad_type", "incompatible"}

\* Python truthiness of a str-or-None value (lines 181, 202).
Truthy(s) == s # None /\ s # ""

\* ----------------------------------------- validate_account_name, 152-164
\* TRUE when the validator raises.  self is account a; its parent and the
\* parent's children are read from the current state.  The validator is
\* registered for the columns name and parent_guid; the column parent_guid is
\* written by the session's flush, which is not part of this source, and an
\* assignment to the relation parent does not pass through it.
NameClash(a, key, value) ==
    LET nm == IF key = "name" THEN value ELSE name[a]
    IN  /\ parent[a] # NoAccount
        /\ \E i \in 1..Len(children[parent[a]]) :
              LET acc == children[parent[a]][i]
              IN  name[acc] = nm /\ acc # a

\* ------------------------------------------------- validate_type, 167-186
\* The error the validator raises for an object whose current type and
\* parent are selfType and selfParent, or "ok".
ValidateType(selfType, selfParent, key, value) ==
    IF key = "type" /\ value \notin ACCOUNT_TYPES THEN "bad_type"
    ELSE IF key = "type" /\ selfParent # NoAccount
            /\ ~_is_parent_child_types_consistent(type[selfParent], value)
        THEN "incompatible"
    ELSE IF key = "parent" /\ value # NoAccount /\ Truthy(selfType)
            /\ ~_is_parent_child_types_consistent(type[value], selfType)
        THEN "incompatible"
    ELSE "ok"

\* ------------------------------------------ commodity_scu setter, 97-108
\* <<_commodity_scu, _non_std_scu>> after  self.commodity_scu = value  on an
\* object whose commodity is com.
ScuSetter(com, value) ==
    IF value = NoneInt
    THEN <<IF com # None THEN Fraction(com) ELSE 0, 0>>
    ELSE <<value, 1>>

\* --------------------------------------------- validate_commodity, 188-198
\* <<_commodity_scu, _non_std_scu>> after the validator ran for the new
\* commodity value, on an object with the given scu and flag.
CommodityValidator(curScu, curNonStd, value) ==
    IF value = None THEN <<curScu, curNonStd>>
    ELSE IF curScu = NoneInt \/ curNonStd = 0
        THEN ScuSetter(None, Fraction(value))
    ELSE <<curScu, curNonStd>>

\* The backref of parent: a leaves the children of its old parent and is
\* appended to those of the new one; nothing moves when the parent is the same.
Without(seq, a) == SelectSeq(seq, LAMBDA x : x # a)
MoveChild(a, old, new) ==
    IF old = new THEN children
    ELSE [p \in Accounts |->
            IF p = new THEN Append(Without(children[p], a), a)
            ELSE IF p = old THEN Without(children[p], a)
            ELSE children[p]]

\* ------------------------------------------------------ __init__, 132-150
\* name and type are assigned while the parent is still None, so only
\* validate_type runs a check; the scu that validate_commodity derives at line
\* 143 is overwritten by the setter call of line 150.  A constructor that
\* raises leaves no object behind.
Construct(n, t, c, p, s) ==
    LET a == nacc + 1
        errType == ValidateType(None, NoAccount, "type", t)
        errParent == ValidateType(t, NoAccount, "parent", p)
        final == ScuSetter(c, s)
    IN  /\ nacc < MaxAccounts
        /\ p \in (1..nacc) \cup {NoAccount}
        /\ IF errType # "ok" THEN last' = errType /\ UNCHANGED fields
           ELSE IF errParent # "ok" THEN last' = errParent /\ UNCHANGED fields
           ELSE /\ nacc' = a
                /\ name' = [name EXCEPT ![a] = n]
                /\ commodity' = [commodity EXCEPT ![a] = c]
                /\ type' = [type EXCEPT ![a] = t]
                /\ parent' = [parent EXCEPT ![a] = p]
                /\ children' = MoveChild(a, NoAccount, p)
                /\ scu' = [scu EXCEPT ![a] = final[1]]
                /\ nonstd' = [nonstd EXCEPT ![a] = final[2]]
                /\ explicit' = [explicit EXCEPT ![a] = (s # NoneInt)]
                /\ last' = "ok"

\* self.name = v  on a constructed account
AssignName(a, v) ==
    /\ a \in 1..nacc
    /\ IF NameClash(a, "name", v)
       THEN last' = "dup_name" /\ UNCHANGED fields
       ELSE /\ name' = [name EXCEPT ![a] = v]
            /\ last' = "ok"
            /\ UNCHANGED <<nacc, type, parent, children, commodity, scu, nonstd, explicit>>

\* A slip: the value is stored before the validator has accepted it.
AssignTypeStoresFirst(a, v) ==
    /\ a \in 1..nacc
    /\ type' = [type EXCEPT ![a] = v]
    /\ last' = ValidateType(type[a], parent[a], "type", v)
    /\ UNCHANGED <<nacc, name, parent, children, commodity, scu, nonstd, explicit>>

\* self.type = v
AssignType(a, v) ==
    LET err == ValidateType(type[a], parent[a], "type", v)
    IN  /\ a \in 1..nacc
        /\ IF err # "ok"
           THEN last' = err /\ UNCHANGED fields
           ELSE /\ type' = [type EXCEPT ![a] = v]
                /\ last' = "ok"
                /\ UNCHANGED <<nacc, name, parent, children, commodity, scu, nonstd, explicit>>

\* self.parent = p : validate_type is the only validator of the key 'parent'
AssignParent(a, p) ==
    LET err == ValidateType(type[a], parent[a], "parent", p)
    IN  /\ a \in 1..nacc
        /\ p \in (1..nacc) \cup {NoAccount}
        /\ IF err # "ok"
           THEN last' = err /\ UNCHANGED fields
           ELSE /\ parent' = [parent EXCEPT ![a] = p]
                /\ children' = MoveChild(a, parent[a], p)
                /\ last' = "ok"
                /\ UNCHANGED <<nacc, name, type, commodity, scu, nonstd, explicit>>

\* self.commodity = c
AssignCommodity(a, c) ==
    LET r == CommodityValidator(scu[a], nonstd[a], c)
    IN  /\ a \in 1..nacc
        /\ commodity' = [commodity EXCEPT ![a] = c]
        /\ scu' = [scu EXCEPT ![a] = r[1]]
        /\ nonstd' = [nonstd EXCEPT ![a] = r[2]]
        /\ last' = "ok"
        /\ UNCHANGED <<nacc, name, type, parent, children, explicit>>

\* self.commodity_scu = v
AssignCommodityScu(a, v) ==
    LET r == ScuSetter(commodity[a], v)
    IN  /\ a \in 1..nacc
        /\ scu' = [scu EXCEPT ![a] = r[1]]
        /\ nonstd' = [nonstd EXCEPT ![a] = r[2]]
        /\ explicit' = [explicit EXCEPT ![a] = explicit[a] \/ v # NoneInt]
        /\ last' = "ok"
        /\ UNCHANGED <<nacc, name, type, parent, children, commodity>>

\* ------------------------------------------------ the account hierarchy
InitAccounts ==
    /\ nacc = 0
    /\ name = [a \in Accounts |-> None]
    /\ type = [a \in Accounts |-> None]
    /\ parent = [a \in Accounts |-> NoAccount]
    /\ children = [a \in Accounts |-> <<>>]
    /\ commodity = [a \in Accounts |-> None]
    /\ scu = [a \in Accounts |-> NoneInt]
    /\ nonstd = [a \in Accounts |-> NoneInt]
    /\ explicit = [a \in Accounts |-> FALSE]
    /\ last = "init"

IdleCompat == cpar = None /\ cchild = None /\ cdone = FALSE /\ cres = FALSE

IdleNumeric ==
    /\ din = [kind |-> "none", m |-> 0, e |-> 0]
    /\ basis = NoneInt
    /\ pair = <<>>
    /\ setres = "pending"
    /\ getdone = FALSE
    /\ got = <<>>

NoResult == [kind |-> "pending", index |-> 0, args |-> <<>>]

IdleFind ==
    /\ flist = <<>>
    /\ flist0 = <<>>
    /\ crit = <<>>
    /\ hasFallback = FALSE
    /\ fbcalls = 0
    /\ fdone = FALSE
    /\ fres = NoResult

IdleFullname == qacc = NoAccount /\ qdone = FALSE /\ qres = [kind |-> "pending", val |-> ""]

Init == InitAccounts /\ IdleCompat /\ IdleNumeric /\ IdleFind /\ IdleFullname

ConstructInTree ==
    /\ \E n \in Names, t \in TreeTypes \cup {BadType}, p \in Accounts \cup {NoAccount} :
            Construct(n, t, "EUR", p, NoneInt)
    /\ UNCHANGED pureVars
SetName == (\E a \in Accounts, v \in Names : AssignName(a, v)) /\ UNCHANGED pureVars
SetType ==
    /\ \E a \in Accounts, v \in TreeTypes \cup {BadType} : AssignType(a, v)
    /\ UNCHANGED pureVars
SetParent ==
    /\ \E a \in Accounts, p \in Accounts \cup {NoAccount} : AssignParent(a, p)
    /\ UNCHANGED pureVars

Next == ConstructInTree \/ SetName \/ SetType \/ SetParent

Spec == Init /\ [][Next]_vars

\* The parent reached from a by k steps up the parent links (NoAccount once
\* the top has been passed).
RECURSIVE Up(_, _)
Up(a, k) ==
    IF k = 0 \/ a = NoAccount THEN a ELSE Up(parent[a], k - 1)

\* C1: no two distinct children of the same parent have the same name.
NoDuplicateSiblingNames ==
    \A p \in 1..nacc : \A i, j \in 1..Len(children[p]) :
        i # j => name[children[p][i]] # name[children[p][j]]

\* C2: every account that has a parent is type-compatible with its parent.
ParentChildTypesConsistent ==
    \A a \in 1..nacc :
        parent[a] # NoAccount =>
            _is_parent_child_types_consistent(type[parent[a]], type[a])

\* C4: an assignment to name, type or parent (or a construction) that raises
\* leaves every field of every account and every children collection as it was.
FailedAssignmentChangesNothing ==
    [][last' \in Errors => UNCHANGED fields]_vars

\* C4 witness: a rename has just been refused because a sibling holds the name,
\* in a tree where the two siblings still carry different names.
RenameRefused ==
    /\ last = "dup_name"
    /\ \E p \in 1..nacc : \E i, j \in 1..Len(children[p]) :
          /\ i # j
          /\ children[p][i] # p /\ children[p][j] # p
          /\ name[children[p][i]] # name[children[p][j]]

\* C10: the parent relation is acyclic: going up from any account ends at an
\* account without parent (within as many steps as there are accounts).
ParentRelationAcyclic ==
    \A a \in 1..nacc : Up(a, MaxAccounts) = NoAccount

\* ------------------------------------------- the smallest currency unit
ConstructWithCommodity ==
    /\ \E c \in Commodities \cup {None}, s \in {NoneInt, ExplicitScu} :
            Construct("A", "ASSET", c, NoAccount, s)
    /\ UNCHANGED pureVars
SetCommodity ==
    /\ \E a \in Accounts, c \in Commodities \cup {None} : AssignCommodity(a, c)
    /\ UNCHANGED pureVars
SetCommodityScu ==
    /\ \E a \in Accounts, v \in {NoneInt, ExplicitScu} : AssignCommodityScu(a, v)
    /\ UNCHANGED pureVars

NextScu == ConstructWithCommodity \/ SetCommodity \/ SetCommodityScu

SpecScu == Init /\ [][NextScu]_vars

\* C3: an account whose commodity_scu the caller never set to a concrete value,
\* and that has a commodity, has the override flag 0 and the scu of its commodity.
DerivedScuFollowsCommodity ==
    \A a \in 1..nacc :
        (~explicit[a] /\ commodity[a] # None) =>
            (nonstd[a] = 0 /\ scu[a] = Fraction(commodity[a]))

\* ------------------------------- _is_parent_child_types_consistent alone
InitCompat ==
    /\ InitAccounts
    /\ IdleNumeric
    /\ IdleFind
    /\ IdleFullname
    /\ cpar \in ACCOUNT_TYPES \cup {None}
    /\ cchild \in ACCOUNT_TYPES
    /\ cdone = FALSE
    /\ cres = FALSE

CallConsistent ==
    /\ ~cdone
    /\ cres' = _is_parent_child_types_consistent(cpar, cchild)
    /\ cdone' = TRUE
    /\ UNCHANGED <<cpar, cchild, accountVars, numericVars, findVars, nameVars>>

NextCompat == CallConsistent

SpecCompat == InitCompat /\ [][NextCompat]_vars

\* The families of section 4.3 of the specification, written out.
SpecFamilies ==
    { {"RECEIVABLE", "MUTUAL", "CASH", "ASSET", "BANK", "STOCK",
       "CREDIT", "LIABILITY", "PAYABLE"},
      {"EQUITY"},
      {"INCOME", "EXPENSE"},
      {"TRADING"} }

\* C5: the result is: child is not ROOT, when the parent is ROOT; otherwise
\* parent is null, when the child is ROOT; otherwise both types lie in one
\* family.  compatible(ROOT, ROOT) and compatible(X, ROOT), X not null, are false.
ConsistentIsTheThreeRules ==
    cdone =>
        /\ cres = (IF cpar = "ROOT" THEN cchild # "ROOT"
                   ELSE IF cchild = "ROOT" THEN cpar = None
                   ELSE \E fam \in SpecFamilies : cpar \in fam /\ cchild \in fam)
        /\ (cchild = "ROOT" /\ cpar # None) => ~cres

\* C5 witness: the function has answered for a ROOT child under a ROOT parent.
RootUnderRootAnswered == cdone /\ cpar = "ROOT" /\ cchild = "ROOT" /\ ~cres

\* ---------------------------------- hybrid_property_gncnumeric, _common.py
\* A Decimal is a record [m, e] of value m * 10^e; the sign is carried by m.
\* The widths are scaled down together: the columns hold WordBits bits in place
\* of 63, and the decimal context keeps Prec significant digits in place of
\* the 28 of Python's default context; 10^Prec exceeds MAX_NUMBER in both.
WordBits == 7
Prec == 3
MaxMantissa == 1200
MaxFracDigits == 3
MaxExp == 1

MAX_NUMBER == 2^WordBits - 1

Abs(x) == IF x < 0 THEN -x ELSE x
Sign(x) == IF x < 0 THEN -1 ELSE 1
Max(x, y) == IF x > y THEN x ELSE y

\* len(str(n)) for n >= 0
RECURSIVE Digits(_)
Digits(n) == IF n < 10 THEN 1 ELSE 1 + Digits(n \div 10)

\* Decimal._fix: the context's rounding (ROUND_HALF_EVEN) of a result to Prec
\* significant digits.
Fix(d) ==
    LET c == Abs(d.m)
        k == Digits(c) - Prec
    IN  IF k <= 0 THEN d
        ELSE LET q == c \div 10^k
                 r == c % 10^k
                 half == 5 * 10^(k - 1)
                 q1 == IF r > half \/ (r = half /\ q % 2 = 1) THEN q + 1 ELSE q
             IN  IF q1 = 10^Prec
                 THEN [m |-> Sign(d.m) * 10^(Prec - 1), e |-> d.e + k + 1]
                 ELSE [m |-> Sign(d.m) * q1, e |-> d.e + k]

\* d * denom  of line 114: Decimal times int, rounded by the context
DecMulInt(d, n) == Fix([m |-> d.m * n, e |-> d.e])

\* A slip: floor in place of int()'s truncation toward zero.
ToIntFloor(d) ==
    IF d.e >= 0 THEN d.m * 10^d.e
    ELSE IF d.m >= 0 THEN d.m \div 10^(-d.e)
    ELSE -((Abs(d.m) + 10^(-d.e) - 1) \div 10^(-d.e))

\* int(Decimal) of line 114: the fractional digits are cut off
ToInt(d) ==
    IF d.e >= 0 THEN d.m * 10^d.e
    ELSE Sign(d.m) * (Abs(d.m) \div 10^(-d.e))

\* The loop of Decimal.__truediv__ for an exact quotient: trailing zeros are
\* dropped while the exponent is below the ideal one (0 for two integers).
RECURSIVE Reduce(_, _)
Reduce(coeff, exp) ==
    IF exp < 0 /\ coeff % 10 = 0 THEN Reduce(coeff \div 10, exp + 1)
    ELSE [m |-> coeff, e |-> exp]

\* Decimal(a) / b  for integers a and b # 0 (lines 89 and 131)
DecDivInt(a, b) ==
    IF a = 0 THEN [m |-> 0, e |-> 0]
    ELSE LET shift == Digits(Abs(b)) - Digits(Abs(a)) + Prec + 1
             n == IF shift >= 0 THEN Abs(a) * 10^shift ELSE Abs(a)
             dv == IF shift >= 0 THEN Abs(b) ELSE Abs(b) * 10^(-shift)
             coeff == n \div dv
             remainder == n % dv
             sg == Sign(a) * Sign(b)
             res == IF remainder # 0
                    THEN [m |-> IF coeff % 5 = 0 THEN coeff + 1 ELSE coeff, e |-> -shift]
                    ELSE Reduce(coeff, -shift)
         IN  Fix([m |-> sg * res.m, e |-> res.e])

\* A slip in line 108: the sign of the exponent is lost.
DenominatorOfPositiveExponent(exp) == 10^Max(exp, 0)

\* denom = 10 ** max(-exp, 0)  (line 108)
NaturalDenominator(exp) == 10^Max(-exp, 0)

NumberKinds == {"tuple", "int", "str", "decimal"}

\* Lines 88-105: the Decimal that d is converted to.  An int has exponent 0; a
\* str is given by the coefficient and exponent it spells; a tuple is (m, e).
AsDecimal(d) ==
    IF d.kind = "tuple" THEN DecDivInt(d.m, d.e) ELSE [m |-> d.m, e |-> d.e]

\* Lines 107-121: <<num, denom>> computed for the Decimal d.
NumDenom(d, denom_basis) ==
    LET denom == IF denom_basis # NoneInt THEN denom_basis ELSE NaturalDenominator(d.e)
    IN  <<ToInt(DecMulInt(d, denom)), denom>>

InRange(nd) ==
    /\ -MAX_NUMBER < nd[1] /\ nd[1] < MAX_NUMBER
    /\ -MAX_NUMBER < nd[2] /\ nd[2] < MAX_NUMBER

\* fset (lines 84-124)
Set ==
    /\ setres = "pending"
    /\ IF din.kind = "none" THEN pair' = <<>> /\ setres' = "ok"
       ELSE IF din.kind \notin NumberKinds THEN pair' = pair /\ setres' = "TypeError"
       ELSE LET nd == NumDenom(AsDecimal(din), basis)
            IN  IF InRange(nd) THEN pair' = nd /\ setres' = "ok"
                ELSE pair' = pair /\ setres' = "ValueError"
    /\ UNCHANGED <<din, basis, getdone, got, accountVars, compatVars, findVars, nameVars>>

\* fget (lines 126-131)
Get ==
    /\ setres # "pending"
    /\ ~getdone
    /\ getdone' = TRUE
    /\ got' = IF pair = <<>> THEN <<>> ELSE <<DecDivInt(pair[1], pair[2])>>
    /\ UNCHANGED <<din, basis, pair, setres, accountVars, compatVars, findVars, nameVars>>

NumericInputs ==
    [kind : {"decimal"}, m : -MaxMantissa..MaxMantissa, e : -MaxFracDigits..MaxExp]
    \cup [kind : {"int"}, m : -MaxMantissa..MaxMantissa, e : {0}]
    \cup [kind : {"str"}, m : {-150, 5, 1006}, e : {-3, -2, 0}]
    \cup [kind : {"tuple"}, m : {-7, 0, 1, 30}, e : {1, 3, 4, 20}]
    \cup [kind : {"none", "float", "other"}, m : {0}, e : {0}]

Bases == {NoneInt, 1, 10, 100}

InitNumeric ==
    /\ InitAccounts
    /\ IdleCompat
    /\ IdleFind
    /\ IdleFullname
    /\ din \in NumericInputs
    /\ basis \in Bases
    /\ pair = <<>>
    /\ setres = "pending"
    /\ getdone = FALSE
    /\ got = <<>>

NextNumeric == Set \/ Get

SpecNumeric == InitNumeric /\ [][NextNumeric]_vars

\* x and y are the same number
ValueEq(x, y) ==
    LET lo == IF x.e < y.e THEN x.e ELSE y.e
    IN  x.m * 10^(x.e - lo) = y.m * 10^(y.e - lo)

\* C6: without a basis, a decimal m * 10^e with e <= 0 whose numerator m and
\* denominator 10^(-e) are in range is stored as <<m, 10^(-e)>>, and the value
\* read back equals it.
RoundTripReturnsValue ==
    (/\ din.kind \in {"decimal", "int", "str"}
     /\ din.e <= 0
     /\ basis = NoneInt
     /\ setres # "pending") =>
        /\ (Abs(din.m) < MAX_NUMBER /\ 10^(-din.e) < MAX_NUMBER) <=> setres = "ok"
        /\ setres = "ok" => pair = <<din.m, 10^(-din.e)>>
        /\ (setres = "ok" /\ getdone) => (got # <<>> /\ ValueEq(got[1], din))

\* C6 witness: a negative decimal with a trailing zero in its fraction, such as
\* -1.50, has been stored and read back.
NegativeFractionReadBack ==
    /\ getdone /\ setres = "ok" /\ basis = NoneInt
    /\ din.kind = "decimal" /\ din.m < 0 /\ din.e = -2 /\ din.m % 10 = 0
    /\ got # <<>>

\* The denominator the claim names.
ClaimedDenominator ==
    IF basis # NoneInt THEN basis
    ELSE IF AsDecimal(din).e < 0 THEN 10^(-AsDecimal(din).e) ELSE 1

\* value * ClaimedDenominator as an exact fraction <<N, D>>, D a power of ten
ExactProduct ==
    LET d == AsDecimal(din)
    IN  IF d.e >= 0 THEN <<d.m * ClaimedDenominator * 10^d.e, 1>>
        ELSE <<d.m * ClaimedDenominator, 10^(-d.e)>>

\* round() of the fraction f: to the nearest integer, a tie to the even one
RoundOf(f) ==
    LET q == Abs(f[1]) \div f[2]
        r == Abs(f[1]) % f[2]
    IN  Sign(f[1]) * (IF 2 * r > f[2] \/ (2 * r = f[2] /\ q % 2 = 1) THEN q + 1 ELSE q)

\* the fraction f with its fractional part dropped
TruncOf(f) == Sign(f[1]) * (Abs(f[1]) \div f[2])

\* the number of significant digits of n: trailing zeros do not count
RECURSIVE SigDigits(_)
SigDigits(n) ==
    IF n # 0 /\ n % 10 = 0 THEN SigDigits(n \div 10) ELSE Digits(Abs(n))

\* C7 as stated: a stored value has the claimed denominator and the numerator
\* round(value * denominator).
StoredNumeratorIsRounded ==
    (setres = "ok" /\ din.kind \in NumberKinds) =>
        /\ pair[2] = ClaimedDenominator
        /\ pair[1] = RoundOf(ExactProduct)

\* C7 amended: a stored value has the claimed denominator, and whenever
\* value * denominator fits the significant digits of the decimal context, the
\* numerator is that product with its fractional part dropped (toward zero).
StoredNumeratorIsTruncated ==
    (setres = "ok" /\ din.kind \in NumberKinds) =>
        /\ pair[2] = ClaimedDenominator
        /\ SigDigits(AsDecimal(din).m * ClaimedDenominator) <= Prec =>
              pair[1] = TruncOf(ExactProduct)

\* C7 witness: -0.16 stored under a basis of 10 (the product is -1.6).
NegativeValueCutToBasis ==
    /\ setres = "ok" /\ basis = 10
    /\ din = [kind |-> "decimal", m |-> -16, e |-> -2]
    /\ pair = <<-1, 10>>

\* ------------------------------------------- CallableList, _common.py
MaxLen == 3

Fields == {"mnemonic", "namespace"}
Elements == [mnemonic : {"EUR", "USD"}, namespace : {"CURRENCY", "FUND"}]
FieldValues(f) == IF f = "mnemonic" THEN {"EUR", "USD", "XYZ"} ELSE {"CURRENCY", "FUND"}

\* The kwargs of a call: no field twice.
Criteria ==
    {<<>>}
    \cup {<<<<f, v>>>> : f \in Fields, v \in {"EUR", "USD", "XYZ", "CURRENCY", "FUND"}}
    \cup {<<<<"mnemonic", v>>, <<"namespace", w>>>> :
            v \in FieldValues("mnemonic"), w \in FieldValues("namespace")}
    \cup {<<<<"namespace", w>>, <<"mnemonic", v>>>> :
            v \in FieldValues("mnemonic"), w \in FieldValues("namespace")}

Lists == UNION {[1..n -> Elements] : n \in 0..MaxLen}

\* The inner loop (lines 163-167) from item i of kwargs on: FALSE at the first
\* item that differs (break), TRUE when the items are exhausted (the else).
RECURSIVE AllItemsMatch(_, _, _)
AllItemsMatch(obj, kwargs, i) ==
    IF i > Len(kwargs) THEN TRUE
    ELSE IF obj[kwargs[i][1]] # kwargs[i][2] THEN FALSE
    ELSE AllItemsMatch(obj, kwargs, i + 1)

\* A slip: the scan runs from the end of the list.
RECURSIVE ScanBackwards(_, _, _)
ScanBackwards(list, kwargs, i) ==
    LET k == Len(list) + 1 - i
    IN  IF i > Len(list) THEN 0
        ELSE IF AllItemsMatch(list[k], kwargs, 1) THEN k
        ELSE ScanBackwards(list, kwargs, i + 1)

\* The outer loop (line 162) from element i on: the index of the element
\* returned, 0 when the list is exhausted.
RECURSIVE Scan(_, _, _)
Scan(list, kwargs, i) ==
    IF i > Len(list) THEN 0
    ELSE IF AllItemsMatch(list[i], kwargs, 1) THEN i
    ELSE Scan(list, kwargs, i + 1)

\* __call__ (lines 153-172).  The element returned is named by its index; the
\* fallback's result by the kwargs it was called with.
Find ==
    LET found == Scan(flist, crit, 1)
    IN  /\ ~fdone
        /\ fdone' = TRUE
        /\ IF found # 0
           THEN fres' = [kind |-> "element", index |-> found, args |-> <<>>]
                /\ fbcalls' = fbcalls
           ELSE IF hasFallback
           THEN fres' = [kind |-> "fallback", index |-> 0, args |-> crit]
                /\ fbcalls' = fbcalls + 1
           ELSE fres' = [kind |-> "KeyError", index |-> 0, args |-> <<>>]
                /\ fbcalls' = fbcalls
        /\ UNCHANGED <<flist, flist0, crit, hasFallback, accountVars, compatVars,
                       numericVars, nameVars>>

InitFind ==
    /\ InitAccounts
    /\ IdleCompat
    /\ IdleNumeric
    /\ IdleFullname
    /\ flist \in Lists
    /\ flist0 = flist
    /\ crit \in Criteria
    /\ hasFallback \in BOOLEAN
    /\ fbcalls = 0
    /\ fdone = FALSE
    /\ fres = NoResult

NextFind == Find

SpecFind == InitFind /\ [][NextFind]_vars

\* the positions of the elements all of whose criteria fields have the expected value
Matching ==
    {i \in 1..Len(flist0) : \A j \in 1..Len(crit) : flist0[i][crit[j][1]] = crit[j][2]}

\* C9: Find returns the first matching element; with no match it returns the
\* fallback's result for the same criteria when a fallback is configured, and
\* fails with a not-found error otherwise; the fallback is invoked in no other
\* case; the list is left as it was.
FindReturnsFirstMatch ==
    fdone =>
        /\ Matching # {} =>
              /\ fres.kind = "element"
              /\ fres.index \in Matching
              /\ \A i \in Matching : fres.index <= i
        /\ (Matching = {} /\ hasFallback) => (fres.kind = "fallback" /\ fres.args = crit)
        /\ (Matching = {} /\ ~hasFallback) => fres.kind = "KeyError"
        /\ fbcalls = (IF Matching = {} /\ hasFallback THEN 1 ELSE 0)
        /\ flist = flist0

\* C9 witness: of three elements the last two match both criteria, and the
\* second was returned.
SecondOfThreeReturned ==
    /\ fdone /\ Len(flist) = 3 /\ Len(crit) = 2
    /\ Matching = {2, 3}
    /\ fres.kind = "element" /\ fres.index = 2

\* ------------------------------------------------ Account.fullname, 200-208
FullnameNames == {None, "", "Assets", "Bank"}

\* The list l of the while loop (lines 205-207) started at acc; only called
\* where the walk ends.
RECURSIVE Collect(_)
Collect(acc) ==
    IF acc = NoAccount THEN <<>> ELSE <<name[acc]>> \o Collect(parent[acc])

\* A slip: the slice starts at the last item, so the root is kept.
SliceFromLast(l) == [i \in 1..Len(l) |-> l[Len(l) + 1 - i]]

\* l[-2::-1] : from the item before the last back to the first
SliceFromSecondLast(l) == [i \in 1..(Len(l) - 1) |-> l[Len(l) - i]]

\* ":".join(items), for items that are all str
RECURSIVE Join(_)
Join(items) ==
    IF Len(items) = 0 THEN ""
    ELSE IF Len(items) = 1 THEN items[1]
    ELSE items[1] \o ":" \o Join(Tail(items))

\* The getter.  A walk that comes back to an account it has visited never
\* ends ("NoReturn"); join raises TypeError on a name that is None.
Fullname(a) ==
    IF ~Truthy(name[a]) THEN [kind |-> "None", val |-> ""]
    ELSE IF Up(a, MaxAccounts) # NoAccount THEN [kind |-> "NoReturn", val |-> ""]
    ELSE LET kept == SliceFromSecondLast(Collect(a))
         IN  IF \E i \in 1..Len(kept) : kept[i] = None
             THEN [kind |-> "TypeError", val |-> ""]
             ELSE [kind |-> "str", val |-> Join(kept)]

ReadFullname ==
    /\ ~qdone
    /\ \E a \in 1..nacc :
          /\ qacc' = a
          /\ qres' = Fullname(a)
    /\ qdone' = TRUE
    /\ UNCHANGED <<accountVars, compatVars, numericVars, findVars>>

\* the members of S in increasing order
RECURSIVE Ascending(_)
Ascending(S) ==
    IF S = {} THEN <<>>
    ELSE LET x == CHOOSE y \in S : \A z \in S : y <= z
         IN  <<x>> \o Ascending(S \ {x})

\* Any names and any parent links: both are reachable, since accounts of one
\* family accept each other as parents and a name is checked against siblings only.
InitFullname ==
    /\ nacc = MaxAccounts
    /\ name \in [Accounts -> FullnameNames]
    /\ parent \in [Accounts -> Accounts \cup {NoAccount}]
    /\ type = [a \in Accounts |-> "ASSET"]
    /\ children = [p \in Accounts |-> Ascending({a \in Accounts : parent[a] = p})]
    /\ commodity = [a \in Accounts |-> "EUR"]
    /\ scu = [a \in Accounts |-> Fraction("EUR")]
    /\ nonstd = [a \in Accounts |-> 0]
    /\ explicit = [a \in Accounts |-> FALSE]
    /\ last = "ok"
    /\ IdleCompat
    /\ IdleNumeric
    /\ IdleFind
    /\ IdleFullname

NextFullname == ReadFullname

SpecFullname == InitFullname /\ [][NextFullname]_vars

\* The path the claim describes, built from the top down: nothing for an
\* account without parent, the own name for a child of the top, and otherwise
\* the parent's path, a colon and the own name.
RECURSIVE ClaimedFullname(_)
ClaimedFullname(a) ==
    IF parent[a] = NoAccount THEN ""
    ELSE IF parent[parent[a]] = NoAccount THEN name[a]
    ELSE ClaimedFullname(parent[a]) \o ":" \o name[a]

\* the accounts from a up to, and without, the top of a's chain
RECURSIVE BelowTop(_)
BelowTop(a) ==
    IF parent[a] = NoAccount THEN {} ELSE {a} \cup BelowTop(parent[a])

\* C8: fullname is null when the name is unset; when the name is set, the
\* chain of parents ends at a top-level account and the accounts below it are
\* named, fullname is their names from the top down, joined with ':'.
FullnameIsPathBelowRoot ==
    qdone =>
        /\ ~Truthy(name[qacc]) => qres.kind = "None"
        /\ (/\ Truthy(name[qacc])
            /\ Up(qacc, MaxAccounts) = NoAccount
            /\ \A b \in BelowTop(qacc) : name[b] # None) =>
                (qres.kind = "str" /\ qres.val = ClaimedFullname(qacc))

\* C8 witness: read on "Bank", whose parent "Assets" is a child of the top.
BankUnderAssetsRead ==
    /\ qdone /\ name[qacc] = "Bank"
    /\ parent[qacc] # NoAccount /\ name[parent[qacc]] = "Assets"
    /\ parent[parent[qacc]] # NoAccount /\ parent[parent[parent[qacc]]] = NoAccount
    /\ qres = [kind |-> "str", val |-> "Assets:Bank"]

====
